---- MODULE Spec2Model ----
(***************************************************************************)
(* Handle lifecycle and boundary contract of the modusdb C++ wrapper       *)
(* (python/src/modusdb_wrapper.hpp, modusdb_wrapper.cpp).                  *)
(*                                                                         *)
(* Engine and Namespace objects are modelled with their single data member *)
(* (engine_handle, namespace_handle).  The far side of the boundary (the   *)
(* extern "C" functions) is the environment: every output it can hand back *)
(* (handle, error buffer, result buffer) is chosen nondeterministically.   *)
(***************************************************************************)
EXTENDS Integers, Sequences, FiniteSets, TLC

\* ------------------------------------------------------------------ bounds
MaxEngineCopies == 1
MaxHandles == 1
MaxNsObjs == 2
MaxNsHandles == 1
MaxText == 1
NumThreads == 2
MaxCloseCalls == 2

\* Engine object 1 is the one the constructor builds; the others are the
\* copies made of it.
EngineObjs == 1..(MaxEngineCopies + 1)
NsObjs == 1..MaxNsObjs
Threads == 1..NumThreads
Handles == 0..MaxHandles
NsHandles == 0..MaxNsHandles

\* ------------------------------------------------- boundary-allocated text
\* A char* is the sequence of the bytes it points to, up to and including the
\* terminating NUL; the null pointer is the empty sequence.
NUL == "NUL"
NULL == <<>>
TextChars == {"a", "b"}
Texts == UNION {[1..n -> TextChars] : n \in 0..MaxText}
ErrBufs == {t \o <<NUL>> : t \in Texts}

\* std::string(const char*): the bytes before the first NUL.
RECURSIVE StrLen(_, _)
StrLen(buf, i) == IF buf[i] = NUL THEN i - 1 ELSE StrLen(buf, i + 1)

CStr(buf) == SubSeq(buf, 1, StrLen(buf, 1))

\* Variant of checkError that throws a fixed text instead of the engine's.
checkError_fixedText(err) ==
    IF err # NULL
    THEN [thrown |-> TRUE, what |-> <<"boundary call failed">>, frees |-> 1]
    ELSE [thrown |-> FALSE, what |-> <<>>, frees |-> 0]

\* checkError(char** err): when the slot is set, copy the text, free the
\* buffer once and throw std::runtime_error(text).
checkError(err) ==
    IF err # NULL
    THEN [thrown |-> TRUE, what |-> CStr(err), frees |-> 1]
    ELSE [thrown |-> FALSE, what |-> <<>>, frees |-> 0]

\* ------------------------------------------------ nlohmann::json (decode)
\* A parsed document: t is the value_t of the basic_json, n the number held
\* (for a float: the number truncated toward zero, which is all that
\* static_cast<uint64_t> reads of it), s the string, m the members in
\* document order as <<key, value>> pairs.
JVal(t, n, s, m) == [t |-> t, n |-> n, s |-> s, m |-> m]
JFail == [ok |-> FALSE, val |-> JVal("discarded", 0, <<>>, <<>>), next |-> 0]
JOk(v, next) == [ok |-> TRUE, val |-> v, next |-> next]

Q == "\""
DigitChars == <<"0", "1", "2", "3", "4", "5", "6", "7", "8", "9">>
IsDigit(c) == \E d \in 1..10 : DigitChars[d] = c
DigitVal(c) == (CHOOSE d \in 1..10 : DigitChars[d] = c) - 1

At(s, i) == IF i >= 1 /\ i <= Len(s) THEN s[i] ELSE "EOF"

RECURSIVE SkipWs(_, _)
SkipWs(s, i) == IF At(s, i) = " " THEN SkipWs(s, i + 1) ELSE i

RECURSIVE DigitsEnd(_, _)
DigitsEnd(s, i) == IF IsDigit(At(s, i)) THEN DigitsEnd(s, i + 1) ELSE i

RECURSIVE Dec(_, _, _, _)
Dec(s, i, e, acc) == IF i >= e THEN acc ELSE Dec(s, i + 1, e, acc * 10 + DigitVal(s[i]))

RECURSIVE StringEnd(_, _)
StringEnd(s, i) ==
    IF At(s, i) = "EOF" THEN 0
    ELSE IF s[i] = Q THEN i
    ELSE StringEnd(s, i + 1)

\* lexer::scan_number: -? (0 | [1-9][0-9]*) (. [0-9]+)?  (the payloads
\* enumerated below carry no exponent).  No sign and no fraction lexes as
\* number_unsigned, a sign as number_integer, a fraction as number_float.
ParseNumber(s, j) ==
    LET neg == At(s, j) = "-"
        k == IF neg THEN j + 1 ELSE j
        e == IF At(s, k) = "0" THEN k + 1 ELSE DigitsEnd(s, k)
        ip == Dec(s, k, e, 0)
        f == DigitsEnd(s, e + 1)
    IN  IF e = k THEN JFail
        ELSE IF At(s, e) = "."
             THEN IF f = e + 1 THEN JFail
                  ELSE JOk(JVal("number_float", IF neg THEN 0 - ip ELSE ip, <<>>, <<>>), f)
        ELSE IF neg THEN JOk(JVal("number_integer", 0 - ip, <<>>, <<>>), e)
        ELSE JOk(JVal("number_unsigned", ip, <<>>, <<>>), e)

ParseLiteral(s, j, word, t) ==
    IF j + Len(word) - 1 <= Len(s) /\ SubSeq(s, j, j + Len(word) - 1) = word
    THEN JOk(JVal(t, 0, <<>>, <<>>), j + Len(word))
    ELSE JFail

ParseString(s, j) ==
    LET e == StringEnd(s, j + 1)
    IN  IF e = 0 THEN JFail
        ELSE JOk(JVal("string", 0, SubSeq(s, j + 1, e - 1), <<>>), e + 1)

RECURSIVE ParseValue(_, _)
RECURSIVE ParseMembers(_, _, _)
RECURSIVE ParseElements(_, _)

\* parser::sax_parse_internal, one value starting at s[i].
ParseValue(s, i) ==
    LET j == SkipWs(s, i)
        c == At(s, j)
    IN  IF c = "{"
        THEN IF At(s, SkipWs(s, j + 1)) = "}"
             THEN JOk(JVal("object", 0, <<>>, <<>>), SkipWs(s, j + 1) + 1)
             ELSE ParseMembers(s, j + 1, <<>>)
        ELSE IF c = "["
        THEN IF At(s, SkipWs(s, j + 1)) = "]"
             THEN JOk(JVal("array", 0, <<>>, <<>>), SkipWs(s, j + 1) + 1)
             ELSE ParseElements(s, j + 1)
        ELSE IF c = Q THEN ParseString(s, j)
        ELSE IF c = "-" \/ IsDigit(c) THEN ParseNumber(s, j)
        ELSE IF c = "t" THEN ParseLiteral(s, j, <<"t", "r", "u", "e">>, "boolean")
        ELSE IF c = "f" THEN ParseLiteral(s, j, <<"f", "a", "l", "s", "e">>, "boolean")
        ELSE IF c = "n" THEN ParseLiteral(s, j, <<"n", "u", "l", "l">>, "null")
        ELSE JFail

\* "key" : value, then "," (another member) or "}".
ParseMembers(s, i, acc) ==
    LET j == SkipWs(s, i)
        key == IF At(s, j) = Q THEN ParseString(s, j) ELSE JFail
        colon == SkipWs(s, key.next)
        v == IF key.ok /\ At(s, colon) = ":" THEN ParseValue(s, colon + 1) ELSE JFail
        sep == SkipWs(s, v.next)
        acc2 == Append(acc, <<key.val.s, v.val>>)
    IN  IF ~v.ok THEN JFail
        ELSE IF At(s, sep) = "}" THEN JOk(JVal("object", 0, <<>>, acc2), sep + 1)
        ELSE IF At(s, sep) = "," THEN ParseMembers(s, sep + 1, acc2)
        ELSE JFail

\* value, then "," (another element) or "]"; the elements are not kept, no
\* conversion of this wrapper reads them.
ParseElements(s, i) ==
    LET v == ParseValue(s, i)
        sep == SkipWs(s, v.next)
    IN  IF ~v.ok THEN JFail
        ELSE IF At(s, sep) = "]" THEN JOk(JVal("array", 0, <<>>, <<>>), sep + 1)
        ELSE IF At(s, sep) = "," THEN ParseElements(s, sep + 1)
        ELSE JFail

\* nlohmann::json::parse(text): one value, then end of input; anything else
\* throws parse_error.
json_parse(text) ==
    LET r == ParseValue(text, 1)
    IN  IF r.ok /\ SkipWs(text, r.next) = Len(text) + 1 THEN r ELSE JFail

\* A uint64_t.  TLC's integers stop short of 2^64, so a value is kept as its
\* magnitude and whether it stands for 2^64 - mag (a wrapped negative).
U64(n) == [wrap |-> FALSE, mag |-> n]
Wrapped(n) == IF n = 0 THEN U64(0) ELSE [wrap |-> TRUE, mag |-> n]

\* get<uint64_t>() = get_arithmetic_value: number_unsigned, number_integer and
\* number_float go through static_cast<uint64_t>; every other type throws
\* type_error 302.  A negative integer wraps modulo 2^64; a float is
\* truncated, and a truncated value below 0 is not representable: undefined,
\* the build yields the wrapped value or 0.
get_uint64(v) ==
    IF v.t = "number_unsigned" THEN [thrown |-> FALSE, vals |-> {U64(v.n)}]
    ELSE IF v.t = "number_integer"
    THEN [thrown |-> FALSE, vals |-> {IF v.n >= 0 THEN U64(v.n) ELSE Wrapped(0 - v.n)}]
    ELSE IF v.t = "number_float"
    THEN [thrown |-> FALSE,
          vals |-> IF v.n >= 0 THEN {U64(v.n)} ELSE {Wrapped(0 - v.n), U64(0)}]
    ELSE [thrown |-> TRUE, vals |-> {}]

\* object_t is a std::map: of two members with one key the later one stays.
ObjectMembers(m) ==
    {<<m[i][1], m[i][2]>> : i \in {k \in 1..Len(m) : \A j \in (k + 1)..Len(m) : m[j][1] # m[k][1]}}

\* get<std::map<std::string, uint64_t>>(): type_error 302 unless the document
\* is an object; every member is converted with get<uint64_t>().  The result
\* is the set of maps the call can return, a map being a set of <<key, value>>.
get_map(j) ==
    LET mem == ObjectMembers(j.m)
        all == UNION {get_uint64(p[2]).vals : p \in mem}
    IN  IF j.t # "object" \/ \E p \in mem : get_uint64(p[2]).thrown
        THEN [thrown |-> TRUE, maps |-> {}]
        ELSE [thrown |-> FALSE,
              maps |-> {{<<p[1], f[p]>> : p \in mem} :
                          f \in {g \in [mem -> all] : \A p \in mem : g[p] \in get_uint64(p[2]).vals}}]

\* ------------------------------------------------------- result payloads
\* The texts the boundary hands back in the result slot of MutateC / QueryC.
KeyA == <<Q, "a", Q>>
KeyB == <<Q, "b", Q>>
Obj1(k, v) == <<"{">> \o k \o <<":">> \o v \o <<"}">>
Obj2(k1, v1, k2, v2) == <<"{">> \o k1 \o <<":">> \o v1 \o <<",">> \o k2 \o <<":">> \o v2 \o <<"}">>

ValueTexts ==
    { <<"1">>, <<"0">>, <<"-", "1">>, <<"1", ".", "5">>, <<"-", "1", ".", "5">>,
      <<"-", "0", ".", "5">>, <<Q, "b", Q>>, <<"{", "}">>, <<"[", "1", "]">>,
      <<"t", "r", "u", "e">>, <<"n", "u", "l", "l">>, <<"0", "1">> }

Payloads ==
    {Obj1(KeyA, v) : v \in ValueTexts}
    \cup { Obj2(KeyA, <<"1">>, KeyB, <<"2">>),
           Obj2(KeyA, <<"1">>, KeyA, <<"2">>),
           Obj2(KeyA, <<"1">>, KeyB, <<"-", "1">>),
           <<"{", "}">>,
           <<"{", " ">> \o KeyA \o <<" ", ":", " ", "2", " ", "}">>,
           <<"[", "1", "]">>, <<"1">>, <<Q, "a", Q>>, <<"n", "u", "l", "l">>,
           <<>>,
           <<"{">> \o KeyA \o <<":", "1">>,
           <<"{">> \o KeyA \o <<"1", "}">>,
           <<"{", "a", ":", "1", "}">>,
           Obj1(KeyA, <<"1">>) \o <<"x">> }

ResultBufs == {p \o <<NUL>> : p \in Payloads}

\* What the boundary can put in an error slot and in a result slot.
ErrOut == {NULL} \cup ErrBufs
ResultOut == {NULL} \cup ResultBufs
\* The same, cut down to one text each, for the specifications that explore
\* the objects' lifecycle rather than the texts.
ErrFew == {NULL, <<"a", NUL>>}
ResultFew == {NULL, Obj1(KeyA, <<"1">>) \o <<NUL>>}

\* What MutateC / QueryC can hand back as <<result, err>>: every result with
\* no error, and every error with and without a result.
SlotsOut == (ResultOut \X {NULL}) \cup (ResultFew \X ErrBufs)
SlotsFew == ResultFew \X ErrFew

\* ------------------------------------------------------------------ state
VARIABLES
    estate,             \* Engine object: "unborn", "alive", "destroyed"
    engine_handle,      \* Engine::engine_handle
    minted,             \* the handle the Engine object was constructed with
    closed,             \* a close() that released the handle has returned
    nstate,             \* Namespace object: "unborn", "alive"
    namespace_handle,   \* Namespace::namespace_handle
    given,              \* the handle the Namespace object was constructed with
    nextHandle,         \* far side: engine handles minted so far
    nextNs,             \* far side: namespace handles minted so far
    nsOwner,            \* far side: the engine handle a namespace handle belongs to
    closeCalls,         \* far side: CloseC calls received, per handle value
    lastOp,             \* the last operation run to completion, as its caller saw it
    pc,                 \* per thread: position inside close() or an Engine operation
    job,                \* per thread: the object and operation it is running
    reg,                \* per thread: the engine_handle value it has loaded
    lastCall            \* the last boundary call issued by a thread

vars == <<estate, engine_handle, minted, closed, nstate, namespace_handle, given,
          nextHandle, nextNs, nsOwner, closeCalls, lastOp, pc, job, reg, lastCall>>

engineVars == <<estate, engine_handle, minted, closed>>
nsVars == <<nstate, namespace_handle, given>>
farVars == <<nextHandle, nextNs, nsOwner, closeCalls>>
threadVars == <<pc, job, reg, lastCall>>

\* The outcome of one handler: kind names the throw site ("ok": it returned),
\* what is the message of the std::runtime_error, errFrees / resultFrees count
\* the free() calls on the two boundary buffers, handle / str / maps are the
\* value returned (maps: every map the call can return).
Outcome(kind, what, ef, rf, handle, str, maps) ==
    [kind |-> kind, what |-> what, errFrees |-> ef, resultFrees |-> rf,
     handle |-> handle, str |-> str, maps |-> maps]

Failure(kind, what, ef, rf) == Outcome(kind, what, ef, rf, 0, <<>>, {{}})

NoOp ==
    [op |-> "none", obj |-> 0, pre |-> 0, fn |-> "none", arg |-> 0, err |-> NULL,
     result |-> NULL, ret |-> 0, kind |-> "ok", what |-> <<>>, errFrees |-> 0,
     resultFrees |-> 0, handle |-> 0, str |-> <<>>, map |-> {}, made |-> 0]

NoCall ==
    [fn |-> "none", arg |-> 0, obj |-> 0, released |-> FALSE,
     closedAtStart |-> FALSE, closedAtCall |-> FALSE, kind |-> "ok"]

\* The record a completed operation leaves: op on object obj (pre: its handle
\* on entry), the boundary call fn(arg) with what it handed back, and the
\* handler's outcome r with the map m picked among r.maps; made is the
\* object the returned value was stored in.
Done(op, obj, pre, fn, arg, err, result, ret, r, m, made) ==
    [op |-> op, obj |-> obj, pre |-> pre, fn |-> fn, arg |-> arg, err |-> err,
     result |-> result, ret |-> ret, kind |-> r.kind, what |-> r.what,
     errFrees |-> r.errFrees, resultFrees |-> r.resultFrees, handle |-> r.handle,
     str |-> r.str, map |-> m, made |-> made]

Init ==
    /\ estate = [o \in EngineObjs |-> "unborn"]
    /\ engine_handle = [o \in EngineObjs |-> 0]
    /\ minted = [o \in EngineObjs |-> 0]
    /\ closed = [o \in EngineObjs |-> FALSE]
    /\ nstate = [n \in NsObjs |-> "unborn"]
    /\ namespace_handle = [n \in NsObjs |-> 0]
    /\ given = [n \in NsObjs |-> 0]
    /\ nextHandle = 0
    /\ nextNs = 0
    /\ nsOwner = [k \in NsHandles |-> 0]
    /\ closeCalls = [h \in Handles |-> 0]
    /\ lastOp = NoOp
    /\ pc = [t \in Threads |-> "idle"]
    /\ job = [t \in Threads |-> [obj |-> 0, op |-> "none", fn |-> "none", closedAtStart |-> FALSE]]
    /\ reg = [t \in Threads |-> 0]
    /\ lastCall = NoCall

\* ------------------------------------------------------ far side (boundary)
\* A handle the far side has minted and not yet been asked to close.
EngineLive(h) == h # 0 /\ h <= nextHandle /\ closeCalls[h] = 0

\* NewEngineC: the sentinel, or a handle never handed out before.
NewEngineRet == {0} \cup (IF nextHandle < MaxHandles THEN {nextHandle + 1} ELSE {})

\* CreateNamespaceC / GetNamespaceC on engine handle h: the sentinel, a fresh
\* namespace handle of a live engine, or (lookup) one it already handed out.
NamespaceRet(fn, h) ==
    {0}
    \cup (IF EngineLive(h) /\ nextNs < MaxNsHandles THEN {nextNs + 1} ELSE {})
    \cup (IF fn = "GetNamespaceC" /\ EngineLive(h)
          THEN {k \in 1..nextNs : nsOwner[k] = h} ELSE {})

\* A namespace handle whose engine the far side has been asked to close.
StaleNs(k) == k # 0 /\ nsOwner[k] # 0 /\ closeCalls[nsOwner[k]] > 0

MintNs(ret, h) ==
    /\ nextNs' = IF ret > nextNs THEN ret ELSE nextNs
    /\ nsOwner' = IF ret > nextNs THEN [nsOwner EXCEPT ![ret] = h] ELSE nsOwner

\* ---------------------------------------------------------------- handlers
\* Each handler as a function of what its boundary call handed back.

\* Engine::Engine: NewEngineC, checkError, then the sentinel test.  A
\* constructor that throws leaves no object behind.
Engine_ctor(ret, err) ==
    LET ce == checkError(err)
    IN  IF ce.thrown THEN Failure("BoundaryError", ce.what, ce.frees, 0)
        ELSE IF ret = 0
        THEN Failure("HandleCreationFailed", <<"Failed to create engine">>, 0, 0)
        ELSE Outcome("ok", <<>>, 0, 0, ret, <<>>, {{}})

\* Engine::createNamespace: CreateNamespaceC, checkError, return Namespace(ns).
Engine_createNamespace(ret, err) ==
    LET ce == checkError(err)
    IN  IF ce.thrown THEN Failure("BoundaryError", ce.what, ce.frees, 0)
        ELSE Outcome("ok", <<>>, 0, 0, ret, <<>>, {{}})

\* Engine::getNamespace: GetNamespaceC, checkError, return Namespace(ns).
Engine_getNamespace(ret, err) ==
    LET ce == checkError(err)
    IN  IF ce.thrown THEN Failure("BoundaryError", ce.what, ce.frees, 0)
        ELSE Outcome("ok", <<>>, 0, 0, ret, <<>>, {{}})

\* Engine::dropAll, Engine::load, Engine::loadData, Namespace::dropData,
\* Namespace::alterSchema: the boundary call, then checkError.
VoidCall(err) ==
    LET ce == checkError(err)
    IN  IF ce.thrown THEN Failure("BoundaryError", ce.what, ce.frees, 0)
        ELSE Outcome("ok", <<>>, 0, 0, 0, <<>>, {{}})

\* Namespace::getId: the value GetNamespaceIDC returns.
Namespace_getId(ret) == Outcome("ok", <<>>, 0, 0, ret, <<>>, {{}})

\* Namespace::mutate: MutateC, checkError, the null test, then parse and
\* convert inside the try block; result is freed in the catch and after it.
Namespace_mutate(result, err) ==
    LET ce == checkError(err)
        j == json_parse(CStr(result))
        conv == get_map(j.val)
    IN  IF ce.thrown THEN Failure("BoundaryError", ce.what, ce.frees, 0)
        ELSE IF result = NULL
        THEN Failure("EmptyResultError", <<"No result returned from mutation">>, 0, 0)
        ELSE IF ~j.ok
        THEN Failure("DecodeError", <<"Failed to parse mutation result: ", "parse_error">>, 0, 1)
        ELSE IF conv.thrown
        THEN Failure("DecodeError", <<"Failed to parse mutation result: ", "type_error">>, 0, 1)
        ELSE Outcome("ok", <<>>, 0, 1, 0, <<>>, conv.maps)

\* Variant of Namespace::query without the null test: a null result comes
\* back as an empty string.
Namespace_query_noNullTest(result, err) ==
    LET ce == checkError(err)
    IN  IF ce.thrown THEN Failure("BoundaryError", ce.what, ce.frees, 0)
        ELSE IF result = NULL THEN Outcome("ok", <<>>, 0, 0, 0, <<>>, {{}})
        ELSE Outcome("ok", <<>>, 0, 1, 0, CStr(result), {{}})

\* Namespace::query: QueryC, checkError, the null test, copy and free.
Namespace_query(result, err) ==
    LET ce == checkError(err)
    IN  IF ce.thrown THEN Failure("BoundaryError", ce.what, ce.frees, 0)
        ELSE IF result = NULL
        THEN Failure("EmptyResultError", <<"No result returned from query">>, 0, 0)
        ELSE Outcome("ok", <<>>, 0, 1, 0, CStr(result), {{}})

\* Variant of Engine::close that leaves engine_handle as it is.
Engine_close_noStore(o) ==
    IF engine_handle[o] # 0
    THEN /\ closeCalls' = [closeCalls EXCEPT ![engine_handle[o]] = @ + 1]
         /\ closed' = [closed EXCEPT ![o] = TRUE]
         /\ UNCHANGED engine_handle
    ELSE UNCHANGED <<closeCalls, engine_handle, closed>>

\* Engine::close on object o: the test, CloseC(engine_handle), the store of 0.
Engine_close(o) ==
    IF engine_handle[o] # 0
    THEN /\ closeCalls' = [closeCalls EXCEPT ![engine_handle[o]] = @ + 1]
         /\ engine_handle' = [engine_handle EXCEPT ![o] = 0]
         /\ closed' = [closed EXCEPT ![o] = TRUE]
    ELSE UNCHANGED <<closeCalls, engine_handle, closed>>

\* ------------------------------------------------------ sequential actions
\* One action per public operation, run to completion by a single caller.
\* E is the set the boundary draws the error slot from, S the set it draws
\* the <<result, err>> slots of MutateC / QueryC from.
\* The Namespace an Engine operation returns is stored in the caller's
\* variable n (initialised or assigned from it).

Open(o, E) ==
    /\ estate[o] = "unborn"
    /\ \E err \in E, ret \in NewEngineRet :
        LET r == Engine_ctor(ret, err)
        IN  /\ nextHandle' = IF ret # 0 THEN ret ELSE nextHandle
            /\ IF r.kind = "ok"
               THEN /\ estate' = [estate EXCEPT ![o] = "alive"]
                    /\ engine_handle' = [engine_handle EXCEPT ![o] = r.handle]
                    /\ minted' = [minted EXCEPT ![o] = r.handle]
               ELSE UNCHANGED <<estate, engine_handle, minted>>
            /\ lastOp' = Done("Engine", o, 0, "NewEngineC", 0, err, NULL, ret, r, {}, 0)
    /\ UNCHANGED <<closed, nsVars, nextNs, nsOwner, closeCalls, threadVars>>

CreateNamespace(o, n, E) ==
    /\ estate[o] = "alive"
    /\ \E err \in E, ret \in NamespaceRet("CreateNamespaceC", engine_handle[o]) :
        LET r == Engine_createNamespace(ret, err)
        IN  /\ MintNs(ret, engine_handle[o])
            /\ IF r.kind = "ok"
               THEN /\ nstate' = [nstate EXCEPT ![n] = "alive"]
                    /\ namespace_handle' = [namespace_handle EXCEPT ![n] = r.handle]
                    /\ given' = [given EXCEPT ![n] = r.handle]
               ELSE UNCHANGED nsVars
            /\ lastOp' = Done("createNamespace", o, engine_handle[o], "CreateNamespaceC",
                              engine_handle[o], err, NULL, ret, r, {},
                              IF r.kind = "ok" THEN n ELSE 0)
    /\ UNCHANGED <<engineVars, nextHandle, closeCalls, threadVars>>

GetNamespace(o, n, E) ==
    /\ estate[o] = "alive"
    /\ \E err \in E, ret \in NamespaceRet("GetNamespaceC", engine_handle[o]) :
        LET r == Engine_getNamespace(ret, err)
        IN  /\ MintNs(ret, engine_handle[o])
            /\ IF r.kind = "ok"
               THEN /\ nstate' = [nstate EXCEPT ![n] = "alive"]
                    /\ namespace_handle' = [namespace_handle EXCEPT ![n] = r.handle]
                    /\ given' = [given EXCEPT ![n] = r.handle]
               ELSE UNCHANGED nsVars
            /\ lastOp' = Done("getNamespace", o, engine_handle[o], "GetNamespaceC",
                              engine_handle[o], err, NULL, ret, r, {},
                              IF r.kind = "ok" THEN n ELSE 0)
    /\ UNCHANGED <<engineVars, nextHandle, closeCalls, threadVars>>

\* dropAll, load, loadData: op names the operation, fn its boundary call.
EngineVoid(o, op, fn, E) ==
    /\ estate[o] = "alive"
    /\ \E err \in E :
        lastOp' = Done(op, o, engine_handle[o], fn, engine_handle[o], err, NULL, 0,
                       VoidCall(err), {}, 0)
    /\ UNCHANGED <<engineVars, nsVars, farVars, threadVars>>

DropAll(o, E) == EngineVoid(o, "dropAll", "DropAllC", E)
Load(o, E) == EngineVoid(o, "load", "LoadC", E)
LoadData(o, E) == EngineVoid(o, "loadData", "LoadDataC", E)

Close(o) ==
    /\ estate[o] = "alive"
    /\ Engine_close(o)
    /\ lastOp' = [NoOp EXCEPT !.op = "close", !.obj = o, !.pre = engine_handle[o],
                              !.fn = IF closeCalls' # closeCalls THEN "CloseC" ELSE "none",
                              !.arg = IF closeCalls' # closeCalls THEN engine_handle[o] ELSE 0]
    /\ UNCHANGED <<estate, minted, nsVars, nextHandle, nextNs, nsOwner, threadVars>>

\* Engine::~Engine: close() when the handle is not the sentinel.
Destroy(o) ==
    /\ estate[o] = "alive"
    /\ IF engine_handle[o] # 0 THEN Engine_close(o)
       ELSE UNCHANGED <<closeCalls, engine_handle, closed>>
    /\ estate' = [estate EXCEPT ![o] = "destroyed"]
    /\ lastOp' = [NoOp EXCEPT !.op = "~Engine", !.obj = o, !.pre = engine_handle[o],
                              !.fn = IF closeCalls' # closeCalls THEN "CloseC" ELSE "none",
                              !.arg = IF closeCalls' # closeCalls THEN engine_handle[o] ELSE 0]
    /\ UNCHANGED <<minted, nsVars, nextHandle, nextNs, nsOwner, threadVars>>

GetId(n) ==
    /\ nstate[n] = "alive"
    /\ \E ret \in NsHandles :
        lastOp' = Done("getId", n, namespace_handle[n], "GetNamespaceIDC",
                       namespace_handle[n], NULL, NULL, ret, Namespace_getId(ret), {}, 0)
    /\ UNCHANGED <<engineVars, nsVars, farVars, threadVars>>

\* Variant of the Namespace operations that makes no boundary call once the
\* owning engine is closed.
NamespaceVoid_guarded(n, op, fn, E) ==
    /\ nstate[n] = "alive"
    /\ IF StaleNs(namespace_handle[n])
       THEN lastOp' = [NoOp EXCEPT !.op = op, !.obj = n, !.pre = namespace_handle[n],
                                   !.kind = "BoundaryError"]
       ELSE \E err \in E :
              lastOp' = Done(op, n, namespace_handle[n], fn, namespace_handle[n], err, NULL,
                             0, VoidCall(err), {}, 0)
    /\ UNCHANGED <<engineVars, nsVars, farVars, threadVars>>

NamespaceVoid(n, op, fn, E) ==
    /\ nstate[n] = "alive"
    /\ \E err \in E :
        lastOp' = Done(op, n, namespace_handle[n], fn, namespace_handle[n], err, NULL, 0,
                       VoidCall(err), {}, 0)
    /\ UNCHANGED <<engineVars, nsVars, farVars, threadVars>>

DropData(n, E) == NamespaceVoid(n, "dropData", "DropDataC", E)
AlterSchema(n, E) == NamespaceVoid(n, "alterSchema", "AlterSchemaC", E)

Mutate(n, S) ==
    /\ nstate[n] = "alive"
    /\ \E slots \in S :
        LET result == slots[1]
            err == slots[2]
            r == Namespace_mutate(result, err)
        IN  \E m \in r.maps :
              lastOp' = Done("mutate", n, namespace_handle[n], "MutateC",
                             namespace_handle[n], err, result, 0, r, m, 0)
    /\ UNCHANGED <<engineVars, nsVars, farVars, threadVars>>

Query(n, S) ==
    /\ nstate[n] = "alive"
    /\ \E slots \in S :
        LET result == slots[1]
            err == slots[2]
        IN  lastOp' = Done("query", n, namespace_handle[n], "QueryC",
                           namespace_handle[n], err, result, 0,
                           Namespace_query(result, err), {}, 0)
    /\ UNCHANGED <<engineVars, nsVars, farVars, threadVars>>

\* Namespace's implicit copy constructor: the copy holds the same handle.
CopyNamespace(n, c) ==
    /\ nstate[n] = "alive"
    /\ nstate[c] = "unborn"
    /\ nstate' = [nstate EXCEPT ![c] = "alive"]
    /\ namespace_handle' = [namespace_handle EXCEPT ![c] = namespace_handle[n]]
    /\ given' = [given EXCEPT ![c] = namespace_handle[n]]
    /\ lastOp' = [NoOp EXCEPT !.op = "Namespace(copy)", !.obj = n, !.made = c,
                              !.pre = namespace_handle[n]]
    /\ UNCHANGED <<engineVars, farVars, threadVars>>

EngineStep(o, E) ==
    \/ Open(o, E)
    \/ DropAll(o, E)
    \/ Load(o, E)
    \/ LoadData(o, E)
    \/ Close(o)
    \/ Destroy(o)

NamespaceStep(n, S, E) ==
    \/ GetId(n)
    \/ DropData(n, E)
    \/ AlterSchema(n, E)
    \/ Mutate(n, S)
    \/ Query(n, S)

\* The lifecycle of one Engine and of the Namespaces taken from it, one caller.
Next ==
    \/ EngineStep(1, ErrFew)
    \/ \E n \in NsObjs : CreateNamespace(1, n, ErrFew)
    \/ \E n \in NsObjs : GetNamespace(1, n, ErrFew)
    \/ \E n \in NsObjs : NamespaceStep(n, SlotsFew, ErrFew)
    \/ \E n \in NsObjs, c \in NsObjs : CopyNamespace(n, c)

Spec == Init /\ [][Next]_vars

\* Every operation against every text the boundary can hand back, on one
\* Engine and one Namespace variable.
NextIO ==
    \/ EngineStep(1, ErrOut)
    \/ CreateNamespace(1, 1, ErrOut)
    \/ GetNamespace(1, 1, ErrOut)
    \/ NamespaceStep(1, SlotsOut, ErrOut)

SpecIO == Init /\ [][NextIO]_vars

\* ------------------------------------------------------- copies of an Engine
\* Engine declares a destructor and nothing else: the implicit copy
\* constructor and copy assignment copy engine_handle member-wise.
CopyEngine(o, c) ==
    /\ estate[o] = "alive"
    /\ estate[c] = "unborn"
    /\ estate' = [estate EXCEPT ![c] = "alive"]
    /\ engine_handle' = [engine_handle EXCEPT ![c] = engine_handle[o]]
    /\ minted' = [minted EXCEPT ![c] = engine_handle[o]]
    /\ closed' = [closed EXCEPT ![c] = closed[o]]
    /\ lastOp' = [NoOp EXCEPT !.op = "Engine(copy)", !.obj = o, !.made = c,
                              !.pre = engine_handle[o]]
    /\ UNCHANGED <<nsVars, farVars, threadVars>>

AssignEngine(o, c) ==
    /\ estate[o] = "alive"
    /\ estate[c] = "alive"
    /\ o # c
    /\ closeCalls[engine_handle[o]] < MaxCloseCalls
    /\ engine_handle' = [engine_handle EXCEPT ![c] = engine_handle[o]]
    /\ minted' = [minted EXCEPT ![c] = engine_handle[o]]
    /\ closed' = [closed EXCEPT ![c] = closed[o]]
    /\ lastOp' = [NoOp EXCEPT !.op = "Engine(assign)", !.obj = o, !.made = c,
                              !.pre = engine_handle[o]]
    /\ UNCHANGED <<estate, nsVars, farVars, threadVars>>

NextCopy ==
    \/ \E o \in EngineObjs : EngineStep(o, ErrFew)
    \/ \E o \in EngineObjs, c \in EngineObjs : CopyEngine(o, c)
    \/ \E o \in EngineObjs, c \in EngineObjs : AssignEngine(o, c)

SpecCopy == Init /\ [][NextCopy]_vars

\* ------------------------------------------------------------------ threads
\* The same handlers run by several threads, one step per access to
\* engine_handle and per boundary call.  Nothing orders the accesses: the
\* CloseC argument is the value the test loaded or the value now in memory.
EngineOps ==
    { [op |-> "createNamespace", fn |-> "CreateNamespaceC"],
      [op |-> "getNamespace", fn |-> "GetNamespaceC"],
      [op |-> "dropAll", fn |-> "DropAllC"],
      [op |-> "load", fn |-> "LoadC"],
      [op |-> "loadData", fn |-> "LoadDataC"] }

Idle == [obj |-> 0, op |-> "none", fn |-> "none", closedAtStart |-> FALSE]

\* close(): if (engine_handle != 0)
CloseTest(t, o) ==
    /\ pc[t] = "idle"
    /\ estate[o] = "alive"
    /\ IF engine_handle[o] # 0
       THEN /\ pc' = [pc EXCEPT ![t] = "close_call"]
            /\ job' = [job EXCEPT ![t] = [Idle EXCEPT !.obj = o, !.op = "close", !.fn = "CloseC"]]
            /\ reg' = [reg EXCEPT ![t] = engine_handle[o]]
       ELSE UNCHANGED <<pc, job, reg>>
    /\ UNCHANGED <<engineVars, nsVars, farVars, lastOp, lastCall>>

\* close(): CloseC(engine_handle)
CloseCall(t) ==
    /\ pc[t] = "close_call"
    /\ \E a \in {reg[t], engine_handle[job[t].obj]} :
        /\ closeCalls' = [closeCalls EXCEPT ![a] = @ + 1]
        /\ lastCall' = [fn |-> "CloseC", arg |-> a, obj |-> job[t].obj,
                        released |-> a # 0 /\ closeCalls[a] > 0,
                        closedAtStart |-> closed[job[t].obj],
                        closedAtCall |-> closed[job[t].obj], kind |-> "ok"]
    /\ pc' = [pc EXCEPT ![t] = "close_store"]
    /\ UNCHANGED <<engineVars, nsVars, nextHandle, nextNs, nsOwner, lastOp, job, reg>>

\* Variant of the last step of close() that returns without the store.
CloseStore_noStore(t) ==
    /\ pc[t] = "close_store"
    /\ closed' = [closed EXCEPT ![job[t].obj] = TRUE]
    /\ pc' = [pc EXCEPT ![t] = "idle"]
    /\ job' = [job EXCEPT ![t] = Idle]
    /\ reg' = [reg EXCEPT ![t] = 0]
    /\ UNCHANGED <<estate, engine_handle, minted, nsVars, farVars, lastOp, lastCall>>

\* close(): engine_handle = 0, and return
CloseStore(t) ==
    /\ pc[t] = "close_store"
    /\ engine_handle' = [engine_handle EXCEPT ![job[t].obj] = 0]
    /\ closed' = [closed EXCEPT ![job[t].obj] = TRUE]
    /\ pc' = [pc EXCEPT ![t] = "idle"]
    /\ job' = [job EXCEPT ![t] = Idle]
    /\ reg' = [reg EXCEPT ![t] = 0]
    /\ UNCHANGED <<estate, minted, nsVars, farVars, lastOp, lastCall>>

\* An Engine operation: the load of engine_handle for the call's argument.
OpLoad(t, o, e) ==
    /\ pc[t] = "idle"
    /\ estate[o] = "alive"
    /\ pc' = [pc EXCEPT ![t] = "op_call"]
    /\ job' = [job EXCEPT ![t] = [obj |-> o, op |-> e.op, fn |-> e.fn,
                                  closedAtStart |-> closed[o]]]
    /\ reg' = [reg EXCEPT ![t] = engine_handle[o]]
    /\ UNCHANGED <<engineVars, nsVars, farVars, lastOp, lastCall>>

\* An Engine operation: the boundary call with the loaded handle, then
\* checkError and the return (kind: how it ended); the caller drops a
\* returned Namespace.
OpCall(t, E) ==
    /\ pc[t] = "op_call"
    /\ \E err \in E,
          ret \in IF job[t].fn \in {"CreateNamespaceC", "GetNamespaceC"}
                  THEN NamespaceRet(job[t].fn, reg[t]) ELSE {0} :
        LET r == IF job[t].fn = "CreateNamespaceC" THEN Engine_createNamespace(ret, err)
                 ELSE IF job[t].fn = "GetNamespaceC" THEN Engine_getNamespace(ret, err)
                 ELSE VoidCall(err)
        IN  /\ MintNs(ret, reg[t])
            /\ lastCall' = [fn |-> job[t].fn, arg |-> reg[t], obj |-> job[t].obj,
                            released |-> reg[t] # 0 /\ closeCalls[reg[t]] > 0,
                            closedAtStart |-> job[t].closedAtStart,
                            closedAtCall |-> closed[job[t].obj], kind |-> r.kind]
    /\ pc' = [pc EXCEPT ![t] = "idle"]
    /\ job' = [job EXCEPT ![t] = Idle]
    /\ reg' = [reg EXCEPT ![t] = 0]
    /\ UNCHANGED <<engineVars, nsVars, nextHandle, closeCalls, lastOp>>

NextConc ==
    \/ Open(1, ErrFew)
    \/ \E t \in Threads : CloseTest(t, 1)
    \/ \E t \in Threads : CloseCall(t)
    \/ \E t \in Threads : CloseStore(t)
    \/ \E t \in Threads, e \in EngineOps : OpLoad(t, 1, e)
    \/ \E t \in Threads : OpCall(t, ErrFew)

SpecConc == Init /\ [][NextConc]_vars

\* ------------------------------------------------------------------ claims
HandleOps == {"Engine", "createNamespace", "getNamespace"}
NamespaceOps == {"getId", "dropData", "alterSchema", "mutate", "query"}
EngineFns == {e.fn : e \in EngineOps}
BoundaryFn(op) ==
    CASE op = "getId" -> "GetNamespaceIDC"
      [] op = "dropData" -> "DropDataC"
      [] op = "alterSchema" -> "AlterSchemaC"
      [] op = "mutate" -> "MutateC"
      [] op = "query" -> "QueryC"

\* C1: for one Engine under one caller, CloseC is called exactly once for the
\* handle the constructor minted: by the first close(), or by the destructor
\* if close() was never called.  A close() or destructor that finds the
\* sentinel makes no boundary call, and the handle is 0 from the first close on.
C1_CloseOnce ==
    \A o \in EngineObjs :
        estate[o] # "unborn" =>
            /\ closeCalls[minted[o]] = (IF engine_handle[o] = 0 THEN 1 ELSE 0)
            /\ estate[o] = "destroyed" => engine_handle[o] = 0
            /\ closed[o] => engine_handle[o] = 0
            /\ (lastOp.op \in {"close", "~Engine"} /\ lastOp.obj = o) =>
                  IF lastOp.pre # 0
                  THEN lastOp.fn = "CloseC" /\ lastOp.arg = minted[o]
                  ELSE lastOp.fn = "none"

\* The destructor runs on an Engine that close() had already closed.
C1_Witness ==
    /\ estate[1] = "destroyed"
    /\ lastOp.op = "~Engine"
    /\ lastOp.pre = 0
    /\ closeCalls[minted[1]] = 1

\* C2: when several threads call close() on one Engine, only one of them gets
\* past the test of engine_handle to the boundary close: no handle is passed
\* to CloseC twice.
C2_SingleRelease == \A h \in Handles \ {0} : closeCalls[h] <= 1

\* C3: every buffer the boundary handed back to the last operation (error
\* message, result payload) has been freed exactly once when it ends.
C3_ReleasedOnce ==
    /\ lastOp.errFrees = (IF lastOp.err # NULL THEN 1 ELSE 0)
    /\ lastOp.resultFrees = (IF lastOp.result # NULL THEN 1 ELSE 0)

\* C4: a handle-producing operation whose boundary call reports no error and
\* returns the sentinel 0 fails with HandleCreationFailed and hands no Engine
\* or Namespace to the caller.
C4_SentinelRejected ==
    (lastOp.op \in HandleOps /\ lastOp.err = NULL /\ lastOp.ret = 0) =>
        /\ lastOp.kind = "HandleCreationFailed"
        /\ lastOp.made = 0

\* C5: an operation whose boundary call set the error slot fails with exactly
\* the engine's text as its message and returns nothing, whatever handle or
\* result the boundary produced besides; a failed constructor leaves no Engine.
C5_ErrorVerbatim ==
    lastOp.err # NULL =>
        /\ lastOp.kind = "BoundaryError"
        /\ lastOp.what \o <<NUL>> = lastOp.err
        /\ lastOp.handle = 0 /\ lastOp.str = <<>> /\ lastOp.map = {} /\ lastOp.made = 0
        /\ lastOp.op = "Engine" => estate[lastOp.obj] = "unborn"

\* mutate fails on the error slot although MutateC also returned a payload.
C5_Witness ==
    /\ lastOp.op = "mutate"
    /\ lastOp.err # NULL
    /\ Len(lastOp.err) > 1
    /\ lastOp.result # NULL

\* C6: mutate and query fail with EmptyResultError when the boundary reports
\* no error and returns a null result.
C6_EmptyResult ==
    (lastOp.op \in {"mutate", "query"} /\ lastOp.err = NULL /\ lastOp.result = NULL) =>
        lastOp.kind = "EmptyResultError"

\* query got neither an error nor a result.
C6_Witness ==
    /\ lastOp.op = "query"
    /\ lastOp.err = NULL
    /\ lastOp.result = NULL
    /\ lastOp.kind = "EmptyResultError"

\* The document in the result slot of the last operation.
LastDoc == json_parse(CStr(lastOp.result))
LastMembers == LastDoc.val.m
DistinctKeys ==
    \A i, j \in 1..Len(LastMembers) : LastMembers[i][1] = LastMembers[j][1] => i = j
IsFlatUnsigned ==
    /\ LastDoc.ok
    /\ LastDoc.val.t = "object"
    /\ \A i \in 1..Len(LastMembers) : LastMembers[i][2].t = "number_unsigned"
IsOtherShape ==
    \/ ~LastDoc.ok
    \/ LastDoc.val.t # "object"
    \/ \E i \in 1..Len(LastMembers) : LastMembers[i][2].t # "number_unsigned"

\* C7: mutate with no error and a payload returns exactly the payload's keys
\* and values when the payload is a flat object of string keys and unsigned
\* integers, and fails with DecodeError for every other payload.
C7_DecodeExact ==
    (lastOp.op = "mutate" /\ lastOp.err = NULL /\ lastOp.result # NULL) =>
        /\ (IsFlatUnsigned /\ DistinctKeys) =>
              /\ lastOp.kind = "ok"
              /\ lastOp.map = {<<LastMembers[i][1], U64(LastMembers[i][2].n)>> :
                                   i \in 1..Len(LastMembers)}
        /\ IsOtherShape => lastOp.kind = "DecodeError"

\* C8: no two Engine objects hold the same non-sentinel handle, and no handle
\* is passed to CloseC twice.
C8_ExclusiveOwner ==
    /\ \A o, c \in EngineObjs :
          (o # c /\ estate[o] = "alive" /\ estate[c] = "alive" /\ engine_handle[o] # 0)
              => engine_handle[o] # engine_handle[c]
    /\ \A h \in Handles \ {0} : closeCalls[h] <= 1

\* C9 as claimed: an Engine operation whose boundary call is issued after
\* close() has returned on that Engine never passes a released handle.
C9_NoReleasedHandle ==
    (lastCall.fn \in EngineFns /\ lastCall.closedAtCall) => ~lastCall.released

\* C9 amended: an Engine operation that starts after close() has returned on
\* that Engine passes the sentinel 0 to its boundary call.
C9_SentinelAfterClose ==
    (lastCall.fn \in EngineFns /\ lastCall.closedAtStart) =>
        /\ lastCall.arg = 0
        /\ ~lastCall.released

\* An Engine operation started on a closed Engine has made its boundary call.
C9_Witness ==
    /\ lastCall.fn \in EngineFns
    /\ lastCall.closedAtStart
    /\ closeCalls[minted[lastCall.obj]] > 0

====
